---- MODULE Spec2Model ----
(***************************************************************************)
(* The receptionist bot (src/bot.js, second revision, lines 268-606) and   *)
(* the booking HTTP server (src/unnamed/part_000) as one state machine.    *)
(*                                                                         *)
(* JSON objects are functions with a partial domain: a key that is         *)
(* undefined in JavaScript is a key outside DOMAIN.  A string is a TLA+    *)
(* string; a calendar date 'YYYY-MM-DD' is the one-element sequence <<d>>  *)
(* of its day number and the empty string (as a date) is <<>>.  Day 0 is   *)
(* Sunday 2024-10-20; an instant is a number of hours since day 0, 00:00   *)
(* UTC.                                                                    *)
(***************************************************************************)
EXTENDS Integers, Sequences, FiniteSets, TLC

VARIABLES
    bookings,          \* table bookings: sequence of rows, row id = index
    booking_cleaners,  \* table booking_cleaners: set of <<booking_id, cleaner_id>>
    tz,                \* the server process's time zone (TZ of the host)
    last,              \* the last request handled and what it answered
    chat               \* the bot's configuration and the Telegram messages it is handling

vars == <<bookings, booking_cleaners, tz, last, chat>>

---------------------------------------------------------------------------
(* Bounds of the model *)

\* rows the bookings table may hold
MaxBookings == 2
\* longest cleaner_names / cleaner_ids list drawn as an input
MaxNames == 2
\* longest oracle text (in tokens) drawn as an input
MaxText == 3
\* last anchor day drawn as an input (two weeks: days 0..MaxDay)
MaxDay == 13
\* Telegram messages the bot receives in one run
MaxMessages == 2

---------------------------------------------------------------------------
(* JavaScript values *)

EmptyObj == [k \in {} |-> 0]

Has(o, k) == k \in DOMAIN o

\* { k: o.k } with the key dropped when o.k is undefined (JSON.stringify)
Copy(o, k) == IF Has(o, k) THEN k :> o[k] ELSE EmptyObj

\* o.k || d for a number
NumOr(o, k, d) == IF Has(o, k) /\ o[k] # 0 THEN o[k] ELSE d

\* o.k || d for a string
StrOr(o, k, d) == IF Has(o, k) /\ o[k] # "" THEN o[k] ELSE d

\* o.k || [] for an array
ArrOr(o, k) == IF Has(o, k) THEN o[k] ELSE <<>>

Range(s) == {s[i] : i \in 1..Len(s)}

\* String.prototype.toLowerCase on the strings the model draws
ToLowerCase(s) ==
    CASE s \in {"Aisling", "aisling", "AISLING"} -> "aisling"
      [] s \in {"Caroline", "caroline"} -> "caroline"
      [] s \in {"Maria", "maria"} -> "maria"
      [] s \in {"Zed", "zed"} -> "zed"
      [] s \in {"General Cleaning", "general cleaning"} -> "general cleaning"
      [] s \in {"Deep Clean", "deep clean"} -> "deep clean"
      [] s \in {"End of Tenancy", "end of tenancy"} -> "end of tenancy"
      [] s \in {"Oven Clean", "oven clean"} -> "oven clean"
      [] OTHER -> s

---------------------------------------------------------------------------
(* The catalog: GET /cleaners and GET /booking-types *)

\* the cleaners table (seeded roster), as GET /api/cleaners lists it (ORDER BY name)
Cleaners ==
    << [id |-> 1, name |-> "Aisling"],
       [id |-> 2, name |-> "Caroline"],
       [id |-> 3, name |-> "Maria"] >>

CleanerIds == {Cleaners[i].id : i \in 1..Len(Cleaners)}

\* the booking types, as GET /api/booking-types lists them
BookingTypes ==
    << [id |-> 1, name |-> "General Cleaning", rate_per_hour |-> 25, rate_type |-> "per_cleaner_per_hour"],
       [id |-> 2, name |-> "Deep Clean", rate_per_hour |-> 40, rate_type |-> "per_cleaner_per_hour"],
       [id |-> 3, name |-> "End of Tenancy", rate_per_hour |-> 120, rate_type |-> "per_hour"],
       [id |-> 4, name |-> "Oven Clean", rate_per_hour |-> 50, rate_type |-> "flat_fee"] >>

\* arr.find(e => e.name.toLowerCase() === want): the first such element, as <<e>>,
\* or <<>> (undefined)
Find(arr, want) ==
    LET hits == {i \in 1..Len(arr) : ToLowerCase(arr[i].name) = want}
    IN IF hits = {} THEN <<>>
       ELSE <<arr[CHOOSE i \in hits : \A j \in hits : i <= j]>>

---------------------------------------------------------------------------
(* The booking store: POST /api/bookings *)

\* the columns the INSERT binds, in order
BookingCols ==
    {"customer_name", "address", "phone", "email", "booking_date",
     "start_time", "duration_hours", "num_cleaners", "price", "notes"}

\* Statement.run(...values): binding undefined is a TypeError, nothing is written
BindOk(body, cols) == \A k \in cols : Has(body, k)

\* the constraints of booking_cleaners: the composite key (booking_id, cleaner_id)
\* and the two foreign keys; TRUE when inserting ids[1..n] for booking id all succeed
AssignOk(bk, bc, id, ids) ==
    /\ id \in 1..Len(bk)
    /\ \A i \in 1..Len(ids) :
          /\ ids[i] \in CleanerIds
          /\ <<id, ids[i]>> \notin bc
          /\ \A j \in 1..(i - 1) : ids[j] # ids[i]

\* assignTransaction(cleaner_ids): all the inserts, or none when one throws
AssignTransaction(bk, bc, id, ids) ==
    IF AssignOk(bk, bc, id, ids)
    THEN [ok |-> TRUE, bc |-> bc \cup {<<id, ids[i]>> : i \in 1..Len(ids)}]
    ELSE [ok |-> FALSE, bc |-> bc]

\* app.post('/api/bookings'): the tables and the response after the handler ran.
\* fate = "killed": the process stops between the INSERT and the assignment
\* transaction (status 0: no response).
PostBookings(bk, bc, body, fate) ==
    IF ~BindOk(body, BookingCols)
    THEN [bookings |-> bk, bc |-> bc, status |-> 500, id |-> 0]
    ELSE LET row == [k \in BookingCols |-> body[k]] @@ [status |-> "confirmed"]
             bk2 == Append(bk, row)
             bookingId == Len(bk2)
             ids == ArrOr(body, "cleaner_ids")
         IN IF fate = "killed"
            THEN [bookings |-> bk2, bc |-> bc, status |-> 0, id |-> bookingId]
            ELSE IF Len(ids) > 0
            THEN LET t == AssignTransaction(bk2, bc, bookingId, ids)
                 IN IF t.ok
                    THEN [bookings |-> bk2, bc |-> t.bc, status |-> 201, id |-> bookingId]
                    ELSE [bookings |-> bk2, bc |-> bc, status |-> 500, id |-> bookingId]
            ELSE [bookings |-> bk2, bc |-> bc, status |-> 201, id |-> bookingId]

---------------------------------------------------------------------------
(* The action executor: executeAction, case 'create_booking' *)

\* cleanerIds: each name mapped to the first catalog cleaner equal to it in
\* lower case, unmatched names filtered out, then the ids
LinkCleaners(names, cleaners) ==
    LET found(n) == Find(cleaners, ToLowerCase(n))
        hits == SelectSeq([i \in 1..Len(names) |-> found(names[i])], LAMBDA f : f # <<>>)
    IN [i \in 1..Len(hits) |-> hits[i][1].id]

\* bookingType: the catalog type named by intent.booking_type, else bookingTypes[0]
ResolveBookingType(intent, bookingTypes) ==
    LET want == ToLowerCase(StrOr(intent, "booking_type", "general cleaning"))
        f == Find(bookingTypes, want)
    IN IF f # <<>> THEN f
       ELSE IF Len(bookingTypes) > 0 THEN <<bookingTypes[1]>> ELSE <<>>

\* the price of a booking by its type's rate rule
RatePrice(t, numCleaners, durationHours) ==
    CASE t.rate_type = "per_cleaner_per_hour" -> t.rate_per_hour * numCleaners * durationHours
      [] t.rate_type = "per_hour" -> t.rate_per_hour * durationHours
      [] OTHER -> t.rate_per_hour

\* BodyPrice with the rate rule applied whatever the action's price
BodyPriceAlwaysRated(intent, bookingType) ==
    RatePrice(bookingType[1], NumOr(intent, "num_cleaners", 1), NumOr(intent, "duration_hours", 2))

\* the price executeAction puts into the request body
BodyPrice(intent, bookingType) == NumOr(intent, "price", 0)

\* the body of the POST /bookings request executeAction sends
CreateBody(intent, cleaners, bookingTypes) ==
    LET bookingType == ResolveBookingType(intent, bookingTypes)
    IN Copy(intent, "customer_name") @@ Copy(intent, "address")
       @@ [phone |-> "", email |-> ""]
       @@ Copy(intent, "booking_date")
       @@ [start_time |-> StrOr(intent, "start_time", "09:00"),
           duration_hours |-> NumOr(intent, "duration_hours", 2),
           num_cleaners |-> NumOr(intent, "num_cleaners", 1),
           price |-> BodyPrice(intent, bookingType),
           notes |-> StrOr(intent, "notes", ""),
           cleaner_ids |-> LinkCleaners(ArrOr(intent, "cleaner_names"), cleaners),
           booking_type_id |-> IF bookingType # <<>> THEN bookingType[1].id ELSE 0]

---------------------------------------------------------------------------
(* The booking store: PUT /api/bookings/:id and GET /api/bookings/:id *)

\* the columns the UPDATE binds
UpdateCols == BookingCols \cup {"status"}

\* DeleteAssignments with the DELETE statement left out
DeleteAssignmentsNone(bc, id) == bc

\* DELETE FROM booking_cleaners WHERE booking_id = ?
DeleteAssignments(bc, id) == {p \in bc : p[1] # id}

\* app.put('/api/bookings/:id').  fate = "killedAfterUpdate" / "killedAfterDelete":
\* the process stops after that statement (status 0: no response).
PutBookings(bk, bc, id, body, fate) ==
    IF ~BindOk(body, UpdateCols)
    THEN [bookings |-> bk, bc |-> bc, status |-> 500]
    ELSE LET bk2 == IF id \in 1..Len(bk)
                    THEN [bk EXCEPT ![id] = [k \in UpdateCols |-> body[k]]]
                    ELSE bk
             bc2 == DeleteAssignments(bc, id)
             ids == ArrOr(body, "cleaner_ids")
         IN IF fate = "killedAfterUpdate"
            THEN [bookings |-> bk2, bc |-> bc, status |-> 0]
            ELSE IF fate = "killedAfterDelete"
            THEN [bookings |-> bk2, bc |-> bc2, status |-> 0]
            ELSE IF Len(ids) > 0
            THEN LET t == AssignTransaction(bk2, bc2, id, ids)
                 IN IF t.ok
                    THEN [bookings |-> bk2, bc |-> t.bc, status |-> 200]
                    ELSE [bookings |-> bk2, bc |-> bc2, status |-> 500]
            ELSE [bookings |-> bk2, bc |-> bc2, status |-> 200]

\* app.get('/api/bookings/:id'): the row and the cleaners joined to it (as a set:
\* the query states no order)
GetBookingById(bk, bc, id) ==
    IF id \notin 1..Len(bk)
    THEN [status |-> 404, booking |-> EmptyObj, cleaners |-> {}]
    ELSE [status |-> 200, booking |-> bk[id],
          cleaners |-> {Cleaners[i] : i \in {j \in 1..Len(Cleaners) : <<id, Cleaners[j].id>> \in bc}}]

\* app.get('/api/bookings'): the ids of the rows in the optional inclusive range
\* (start, end: <<>> when the query parameter is not sent)
GetBookings(bk, start, end) ==
    {i \in 1..Len(bk) :
        /\ start # <<>> => (bk[i].booking_date # <<>> /\ bk[i].booking_date[1] >= start[1])
        /\ end # <<>> => (bk[i].booking_date = <<>> \/ bk[i].booking_date[1] <= end[1])}

---------------------------------------------------------------------------
(* Dates: new Date(date), getDay, getDate/setDate (local time), toISOString (UTC) *)

\* the zones the server may run in: local = UTC + before until the instant
\* switch, UTC + after from then on (hours)
TimeZones ==
    { [name |-> "UTC", before |-> 0, after |-> 0, switch |-> 0],
      [name |-> "Europe/Dublin", before |-> 1, after |-> 0, switch |-> 7 * 24 + 1],
      [name |-> "America/New_York", before |-> -4, after |-> -5, switch |-> 14 * 24 + 6] }

\* local time of the instant t
LocalTime(z, t) == t + (IF t < z.switch THEN z.before ELSE z.after)

\* the instant of local time l (a repeated or skipped local time is read with the
\* offset before the transition)
UTC(z, l) ==
    IF l - z.before < z.switch THEN l - z.before
    ELSE IF l - z.after >= z.switch THEN l - z.after
    ELSE l - z.before

\* d.setDate(d.getDate() + n)
AddDays(z, t, n) == UTC(z, LocalTime(z, t) + 24 * n)

\* d.getDay()
GetDay(z, t) == (LocalTime(z, t) \div 24) % 7

\* d.toISOString().split('T')[0]
IsoDate(t) == <<t \div 24>>

\* startOfWeek / endOfWeek of the two week routes, from the :date parameter <<d>>
StartOfWeek(z, date) ==
    LET t == 24 * date[1]
    IN AddDays(z, t, 0 - GetDay(z, t))

EndOfWeek(z, date) == AddDays(z, StartOfWeek(z, date), 6)

\* WHERE booking_date BETWEEN ? AND ?
Between(bk, startStr, endStr) ==
    {i \in 1..Len(bk) :
        /\ bk[i].booking_date # <<>>
        /\ bk[i].booking_date[1] >= startStr[1]
        /\ bk[i].booking_date[1] <= endStr[1]}

\* app.get('/api/schedule/week/:date')
GetScheduleWeek(bk, z, date) ==
    LET startStr == IsoDate(StartOfWeek(z, date))
        endStr == IsoDate(EndOfWeek(z, date))
    IN [week_start |-> startStr, week_end |-> endStr,
        bookings |-> Between(bk, startStr, endStr)]

\* SQL SUM(col) over the rows ids: NULL (<<>>) over no rows, else <<the sum>>
RECURSIVE Total(_, _, _)
Total(bk, ids, col) ==
    IF ids = {} THEN 0
    ELSE LET i == CHOOSE j \in ids : TRUE
         IN bk[i][col] + Total(bk, ids \ {i}, col)

SqlSum(bk, ids, col) == IF ids = {} THEN <<>> ELSE <<Total(bk, ids, col)>>

\* app.get('/api/income/weekly/:date'): numbers are <<n>>, null is <<>>
GetIncomeWeekly(bk, z, date) ==
    LET startStr == IsoDate(StartOfWeek(z, date))
        endStr == IsoDate(EndOfWeek(z, date))
        ids == Between(bk, startStr, endStr)
    IN [week_start |-> startStr, week_end |-> endStr,
        total_bookings |-> <<Cardinality(ids)>>,
        total_hours |-> SqlSum(bk, ids, "duration_hours"),
        total_income |-> SqlSum(bk, ids, "price")]

---------------------------------------------------------------------------
(* The intent parser: parseIntent, from the oracle's response on *)

(* An oracle response is [text, fields].  text is the response as a sequence *)
(* of tokens: "{" and "}", a code fence ("FENCE_JSON" or "FENCE", three      *)
(* backquotes with or without json), a word of prose "w", or a member        *)
(* token: the member "action":"<tag>" of an object,                          *)
(* written as the tag, together with the object's other members, which are   *)
(* fields.                                                                  *)

\* the tags executeAction's switch has a case for
KnownTags ==
    {"create_booking", "list_bookings", "weekly_schedule", "weekly_income",
     "list_booking_types", "help"}

\* every tag a member token may carry ("delete_booking": a tag outside the schema)
Tags == KnownTags \cup {"unknown", "delete_booking"}

\* raw.replace(/FENCE_JSON|FENCE/g, '')
StripFences(raw) == SelectSeq(raw, LAMBDA t : t \notin {"FENCE_JSON", "FENCE"})

\* cleaned.match(/\{[\s\S]*\}/): from the first "{" to the last "}" after it, or
\* <<>> (null) when there is none
MatchBraces(cleaned) ==
    LET opens == {i \in 1..Len(cleaned) : cleaned[i] = "{"}
        first == CHOOSE i \in opens : \A j \in opens : i <= j
        closes == {i \in 1..Len(cleaned) : cleaned[i] = "}" /\ i > first}
        lastClose == CHOOSE i \in closes : \A j \in closes : i >= j
    IN IF opens = {} THEN <<>>
       ELSE IF closes = {} THEN <<>>
       ELSE SubSeq(cleaned, first, lastClose)

\* JSON.parse of the matched text: {} and { member } are objects, anything else
\* (prose, a second object, nested braces without a key) is a SyntaxError
JsonParse(toks, fields) ==
    IF toks = <<"{", "}">> THEN [ok |-> TRUE, value |-> EmptyObj]
    ELSE IF Len(toks) = 3 /\ toks[1] = "{" /\ toks[2] \in Tags /\ toks[3] = "}"
    THEN [ok |-> TRUE, value |-> ("action" :> toks[2]) @@ fields]
    ELSE [ok |-> FALSE, value |-> EmptyObj]

\* the fallback object of parseIntent
Unrecognized(raw) == [action |-> "unknown", message |-> raw]

\* parseIntent, from const raw = res.data.response.trim() on
ParseIntent(resp) ==
    LET raw == resp.text
        cleaned == StripFences(raw)
        match == MatchBraces(cleaned)
        parsed == JsonParse(match, resp.fields)
    IN IF match = <<>> THEN Unrecognized(raw)
       ELSE IF parsed.ok THEN parsed.value
       ELSE Unrecognized(raw)

---------------------------------------------------------------------------
(* The action executor: executeAction *)

\* assigned: (intent.cleaner_names || []).join(', ') || 'Unassigned', as the
\* sequence of the names the confirmation lists
Assigned(intent) ==
    LET names == ArrOr(intent, "cleaner_names")
    IN IF names \in {<<>>, <<"">>} THEN <<"Unassigned">> ELSE names

\* what executeAction does to the tables, the requests it sends to the store
\* (calls), and its reply: a rendered message, or thrown: the request failed and
\* handleMessage answers with the error
ExecuteAction(bk, bc, z, intent, cleaners, bookingTypes, today) ==
    LET action == IF Has(intent, "action") THEN intent.action ELSE "undefined"
        same == [bookings |-> bk, bc |-> bc, body |-> EmptyObj, status |-> 0, id |-> 0]
    IN CASE action = "create_booking" ->
              LET body == CreateBody(intent, cleaners, bookingTypes)
                  r == PostBookings(bk, bc, body, "run")
              IN [bookings |-> r.bookings, bc |-> r.bc, body |-> body,
                  status |-> r.status, id |-> r.id,
                  calls |-> <<"POST /bookings">>,
                  reply |-> IF r.status = 201
                            THEN [kind |-> "Booking Created", id |-> r.id,
                                  price |-> NumOr(intent, "price", 0),
                                  assigned |-> Assigned(intent)]
                            ELSE [kind |-> "thrown"]]
         [] action = "list_bookings" ->
              LET date == ArrOr(intent, "date")
              IN same @@ [calls |-> <<"GET /bookings">>,
                          reply |-> [kind |-> "Bookings", ids |-> GetBookings(bk, date, date)]]
         [] action = "weekly_schedule" ->
              LET schedule == GetScheduleWeek(bk, z, today)
              IN same @@ [calls |-> <<"GET /schedule/week">>,
                          reply |-> [kind |-> "Week", week_start |-> schedule.week_start,
                                     ids |-> schedule.bookings]]
         [] action = "weekly_income" ->
              LET income == GetIncomeWeekly(bk, z, today)
              IN same @@ [calls |-> <<"GET /income/weekly">>,
                          reply |-> [kind |-> "This Week",
                                     bookings |-> income.total_bookings,
                                     hours |-> IF income.total_hours \in {<<>>, <<0>>}
                                               THEN <<0>> ELSE income.total_hours,
                                     income |-> IF income.total_income \in {<<>>, <<0>>}
                                                THEN <<0>> ELSE income.total_income]]
         [] action = "list_booking_types" ->
              same @@ [calls |-> <<>>,
                       reply |-> [kind |-> "Booking Types",
                                  names |-> [i \in 1..Len(bookingTypes) |-> bookingTypes[i].name]]]
         [] action = "help" ->
              same @@ [calls |-> <<>>, reply |-> [kind |-> "help"]]
         [] OTHER ->
              same @@ [calls |-> <<>>, reply |-> [kind |-> "Didnt get that"]]

---------------------------------------------------------------------------
(* The inputs the actions draw *)

\* the key k absent, or k with a value of S
Opt(k, S) == {EmptyObj} \cup {k :> v : v \in S}

\* the sequences over S of length at most n
SeqsUpTo(S, n) == UNION {[1..m -> S] : m \in 0..n}

Days == {<<d>> : d \in 0..MaxDay}

\* the required fields of a create_booking action, all given
BaseFields == [customer_name |-> "Ann", address |-> "5 Oak St", booking_date |-> <<3>>]

\* create_booking actions that vary what the price depends on
PricingFields ==
    {p @@ t @@ d @@ n @@ BaseFields :
        p \in Opt("price", {0, 80}),
        t \in Opt("booking_type", {"deep clean", "End of Tenancy", "Oven Clean"}),
        d \in Opt("duration_hours", {3}),
        n \in Opt("num_cleaners", {2})}
    \cup {f @@ BaseFields :
            f \in {"price" :> -5, "duration_hours" :> -1, "duration_hours" :> 0,
                   "num_cleaners" :> -1, "booking_type" :> "Sparkle"}}

\* create_booking actions that vary the required fields
RequiredFields ==
    {n @@ a @@ [booking_date |-> <<3>>] :
        n \in Opt("customer_name", {"", "Ann"}),
        a \in Opt("address", {"", "5 Oak St"})}
    \cup {d @@ [customer_name |-> "Ann", address |-> "5 Oak St"] :
            d \in Opt("booking_date", {<<>>, <<9>>})}

\* create_booking actions that vary the cleaner names
CleanerNameInputs == {"Aisling", "aisling", "Caroline", "Zed"}

LinkFields ==
    {c @@ BaseFields : c \in Opt("cleaner_names", SeqsUpTo(CleanerNameInputs, MaxNames))}

\* the tokens of the free texts
TextTokens == {"{", "}", "w"}

\* an action object with commentary around it: plain words, a fenced object
\* followed by words, a stray brace after the object, a second object after it
CommentedTexts ==
    { <<"w", "{", "help", "}", "w">>,
      <<"FENCE_JSON", "{", "help", "}", "FENCE", "w">>,
      <<"{", "help", "}", "w", "}">>,
      <<"{", "help", "}", "w", "{", "unknown", "}">> }

\* what the oracle may answer: a well-formed action object, bare or in code
\* fences, or any short text
OracleResponses ==
    {[text |-> <<"{", "create_booking", "}">>, fields |-> f] :
        f \in PricingFields \cup RequiredFields \cup LinkFields}
    \cup {[text |-> <<"{", "list_bookings", "}">>, fields |-> d] : d \in Opt("date", {<<3>>})}
    \cup {[text |-> <<"{", t, "}">>, fields |-> EmptyObj] :
            t \in Tags \ {"create_booking", "list_bookings"}}
    \cup {[text |-> <<"FENCE_JSON", "{", "help", "}", "FENCE">>, fields |-> EmptyObj],
          [text |-> <<"FENCE", "w", "FENCE">>, fields |-> EmptyObj]}
    \cup {[text |-> t, fields |-> EmptyObj] : t \in CommentedTexts}
    \cup {[text |-> t, fields |-> EmptyObj] : t \in SeqsUpTo(TextTokens, MaxText)}

\* request bodies of the web client
HttpBase ==
    [customer_name |-> "Ann", address |-> "5 Oak St", phone |-> "", email |-> "",
     booking_date |-> <<3>>, start_time |-> "09:00", duration_hours |-> 2,
     num_cleaners |-> 1, price |-> 50, notes |-> ""]

\* the cleaner ids a request may name (9: no such cleaner)
CleanerIdInputs == CleanerIds \cup {9}

CleanerIdLists == Opt("cleaner_ids", SeqsUpTo(CleanerIdInputs, MaxNames))

\* POST requests, and where the server process is stopped, if it is
PostRequests ==
    {[body |-> c @@ HttpBase, fate |-> "run"] : c \in CleanerIdLists}
    \cup {[body |-> [k \in DOMAIN HttpBase \ {"customer_name"} |-> HttpBase[k]], fate |-> "run"],
          [body |-> ("price" :> -5) @@ HttpBase, fate |-> "run"],
          [body |-> [cleaner_ids |-> <<1, 2>>] @@ HttpBase, fate |-> "killed"]}

\* PUT requests, and where the server process is stopped, if it is
PutBase == ("duration_hours" :> 4) @@ [status |-> "completed"] @@ HttpBase

PutRequests ==
    {[body |-> c @@ PutBase, fate |-> "run"] : c \in CleanerIdLists}
    \cup {[body |-> HttpBase, fate |-> "run"],
          [body |-> ("duration_hours" :> -1) @@ PutBase, fate |-> "run"]}
    \cup {[body |-> [cleaner_ids |-> <<2, 3>>] @@ PutBase, fate |-> f] :
            f \in {"killedAfterUpdate", "killedAfterDelete"}}

---------------------------------------------------------------------------
(* The state machine *)

Idle == [op |-> "idle"]

\* the bot with ADMIN_CHAT_IDS unset and no message received
NoChat == [env |-> <<>>, msgs |-> <<>>]

Init ==
    /\ bookings = <<>>
    /\ booking_cleaners = {}
    /\ tz \in TimeZones
    /\ last = Idle
    /\ chat = NoChat

\* handleMessage(chatId, text), from the oracle's response on: parseIntent, then
\* executeAction with the catalog.  today is today(), which only the two weekly
\* cases read.
HandleMessage(resp) ==
    /\ last = Idle
    /\ \E intent \in {ParseIntent(resp)} :
       \E today \in IF Has(intent, "action") /\ intent.action \in {"weekly_schedule", "weekly_income"}
                    THEN Days ELSE {<<0>>} :
       \E r \in {ExecuteAction(bookings, booking_cleaners, tz, intent, Cleaners, BookingTypes, today)} :
          /\ Len(r.bookings) <= MaxBookings
          /\ bookings' = r.bookings
          /\ booking_cleaners' = r.bc
          /\ last' = [op |-> "message", req |-> resp, intent |-> intent, body |-> r.body,
                      status |-> r.status, id |-> r.id, calls |-> r.calls, reply |-> r.reply]
    /\ UNCHANGED <<tz, chat>>

\* POST /api/bookings from the web client
PostBooking(body, fate) ==
    /\ last = Idle
    /\ \E r \in {PostBookings(bookings, booking_cleaners, body, fate)} :
          /\ Len(r.bookings) <= MaxBookings
          /\ bookings' = r.bookings
          /\ booking_cleaners' = r.bc
          /\ last' = [op |-> "POST", req |-> body, fate |-> fate, status |-> r.status, id |-> r.id]
    /\ UNCHANGED <<tz, chat>>

\* PUT /api/bookings/:id from the web client (before: what GET /bookings/:id
\* answered before the request)
PutBooking(id, body, fate) ==
    /\ last = Idle
    /\ \E r \in {PutBookings(bookings, booking_cleaners, id, body, fate)} :
          /\ bookings' = r.bookings
          /\ booking_cleaners' = r.bc
          /\ last' = [op |-> "PUT", id |-> id, req |-> body, fate |-> fate, status |-> r.status,
                      before |-> GetBookingById(bookings, booking_cleaners, id)]
    /\ UNCHANGED <<tz, chat>>

\* GET /api/bookings/:id
GetBooking(id) ==
    /\ last = Idle
    /\ last' = [op |-> "GET", id |-> id, res |-> GetBookingById(bookings, booking_cleaners, id)]
    /\ UNCHANGED <<bookings, booking_cleaners, tz, chat>>

\* GET /api/schedule/week/:date
ScheduleWeek(date) ==
    /\ last = Idle
    /\ last' = [op |-> "GET schedule", date |-> date, res |-> GetScheduleWeek(bookings, tz, date)]
    /\ UNCHANGED <<bookings, booking_cleaners, tz, chat>>

\* GET /api/income/weekly/:date
IncomeWeekly(date) ==
    /\ last = Idle
    /\ last' = [op |-> "GET income", date |-> date, res |-> GetIncomeWeekly(bookings, tz, date)]
    /\ UNCHANGED <<bookings, booking_cleaners, tz, chat>>

\* the response is out (res.json, bot.sendMessage) and the handler has returned:
\* the process takes the next request
SendResponse ==
    /\ last # Idle
    /\ last' = Idle
    /\ UNCHANGED <<bookings, booking_cleaners, tz, chat>>

Next ==
    \/ \E resp \in OracleResponses : HandleMessage(resp)
    \/ \E q \in PostRequests : PostBooking(q.body, q.fate)
    \/ \E id \in 1..MaxBookings, q \in PutRequests : PutBooking(id, q.body, q.fate)
    \/ \E id \in 1..MaxBookings : GetBooking(id)
    \/ \E date \in Days : ScheduleWeek(date)
    \/ \E date \in Days : IncomeWeekly(date)
    \/ SendResponse

Spec == Init /\ [][Next]_vars

---------------------------------------------------------------------------
(* The bot's message handler: bot.on('message', async (msg) => ...) *)

(* chat.env is the environment variable ADMIN_CHAT_IDS as the sequence of its  *)
(* comma-separated entries, <<>> when it is unset or the empty string.         *)
(* chat.msgs holds the messages received, in arrival order.  A message is      *)
(* [chat, kind, pc, ops, replies, intent, reply]: the chat id, what was sent,  *)
(* where its handler is waiting, the operations the handler has run, the       *)
(* messages it has sent to the chat, and the results of parseIntent and        *)
(* executeAction.  The listener is async and the emitter does not wait for     *)
(* it: every await is a point where the handler of another message may run.    *)

\* not a number: equal to no chat id
NaN == -1

\* parseInt(id.trim(), 10) on the entries the model draws
ParseInt(entry) ==
    CASE entry \in {"1", " 1 "} -> 1
      [] entry \in {"2", " 2 "} -> 2
      [] OTHER -> NaN

\* ADMIN_CHAT_IDS: <<>> is null, <<list>> is the parsed list
AdminChatIds(env) ==
    IF env = <<>> THEN <<>> ELSE <<[i \in 1..Len(env) |-> ParseInt(env[i])]>>

\* isAuthorized with the allow-list never consulted
IsAuthorizedOpen(admins, chatId) == TRUE

\* isAuthorized(chatId)
IsAuthorized(admins, chatId) ==
    IF admins = <<>> \/ Len(admins[1]) = 0 THEN TRUE
    ELSE chatId \in Range(admins[1])

\* the values of ADMIN_CHAT_IDS
AdminEnvs == {<<>>, <<"1">>, <<" 1 ", "x">>}

\* the chats that write to the bot
ChatIds == {1, 2}

\* what a message is: the text /myid, the text /help, any other text, a voice
\* note, or a message with neither text nor voice (a photo)
MessageKinds == {"/myid", "/help", "text", "voice", "photo"}

\* what the oracle answers in these runs
BotOracleResponses ==
    { [text |-> <<"{", "create_booking", "}">>, fields |-> BaseFields],
      [text |-> <<"{", "help", "}">>, fields |-> EmptyObj],
      [text |-> <<"w">>, fields |-> EmptyObj] }

BotInit ==
    /\ bookings = <<>>
    /\ booking_cleaners = {}
    /\ tz \in {z \in TimeZones : z.name = "UTC"}
    /\ last = Idle
    /\ chat \in {[env |-> e, msgs |-> <<>>] : e \in AdminEnvs}

\* the handler of message i is waiting at pc
At(i, pc) == i \in 1..Len(chat.msgs) /\ chat.msgs[i].pc = pc

\* the emitter calls the listener for a new message
OnMessage(chatId, kind) ==
    /\ Len(chat.msgs) < MaxMessages
    /\ chat' = [chat EXCEPT !.msgs = Append(@,
                    [chat |-> chatId, kind |-> kind, pc |-> "route", ops |-> {},
                     replies |-> <<>>, intent |-> EmptyObj, reply |-> ""])]
    /\ UNCHANGED <<bookings, booking_cleaners, tz, last>>

\* the listener up to its first await that is not a reply: /myid, the
\* authorization check, the voice notice, /help, or on to handleMessage
Route(i) ==
    /\ At(i, "route")
    /\ LET m == chat.msgs[i]
           sent(text, pc) == [m EXCEPT !.replies = Append(@, text), !.pc = pc]
       IN chat' = [chat EXCEPT !.msgs[i] =
                IF m.kind = "/myid" THEN sent("Your Telegram chat ID is", "done")
                ELSE IF ~IsAuthorized(AdminChatIds(chat.env), m.chat)
                THEN sent("Sorry, this bot is private", "done")
                ELSE IF m.kind = "voice" THEN sent("Transcribing your voice note", "transcribe")
                ELSE IF m.kind = "photo" THEN [m EXCEPT !.pc = "done"]
                ELSE IF m.kind = "/help" THEN sent("help", "done")
                ELSE [m EXCEPT !.pc = "typing"]]
    /\ UNCHANGED <<bookings, booking_cleaners, tz, last>>

\* await transcribeVoice(fileId): the text, or an error that ends the handler
TranscribeVoice(i, ok) ==
    /\ At(i, "transcribe")
    /\ chat' = [chat EXCEPT !.msgs[i] =
            IF ok THEN [@ EXCEPT !.ops = @ \cup {"transcribe"}, !.pc = "heard"]
            ELSE [@ EXCEPT !.ops = @ \cup {"transcribe"},
                           !.replies = Append(@, "Voice error"), !.pc = "done"]]
    /\ UNCHANGED <<bookings, booking_cleaners, tz, last>>

\* await bot.sendMessage(chatId, 'I heard: ...'), then handleMessage
SendHeard(i) ==
    /\ At(i, "heard")
    /\ chat' = [chat EXCEPT !.msgs[i] =
            [@ EXCEPT !.replies = Append(@, "I heard"), !.pc = "typing"]]
    /\ UNCHANGED <<bookings, booking_cleaners, tz, last>>

\* handleMessage: await bot.sendChatAction(chatId, 'typing')
SendChatAction(i) ==
    /\ At(i, "typing")
    /\ chat' = [chat EXCEPT !.msgs[i].pc = "catalog"]
    /\ UNCHANGED <<bookings, booking_cleaners, tz, last>>

\* handleMessage: await Promise.all([getCleaners(), getBookingTypes()])
GetCatalog(i) ==
    /\ At(i, "catalog")
    /\ chat' = [chat EXCEPT !.msgs[i] = [@ EXCEPT !.ops = @ \cup {"catalog"}, !.pc = "oracle"]]
    /\ UNCHANGED <<bookings, booking_cleaners, tz, last>>

\* handleMessage: await parseIntent(text, cleaners, bookingTypes)
CallOracle(i, resp) ==
    /\ At(i, "oracle")
    /\ chat' = [chat EXCEPT !.msgs[i] =
            [@ EXCEPT !.ops = @ \cup {"oracle"}, !.intent = ParseIntent(resp), !.pc = "execute"]]
    /\ UNCHANGED <<bookings, booking_cleaners, tz, last>>

\* handleMessage: await executeAction(intent, cleaners, bookingTypes)
RunAction(i) ==
    /\ At(i, "execute")
    /\ \E r \in {ExecuteAction(bookings, booking_cleaners, tz, chat.msgs[i].intent,
                               Cleaners, BookingTypes, <<0>>)} :
          /\ Len(r.bookings) <= MaxBookings
          /\ bookings' = r.bookings
          /\ booking_cleaners' = r.bc
          /\ chat' = [chat EXCEPT !.msgs[i] =
                [@ EXCEPT !.ops = IF r.calls = <<>> THEN @ ELSE @ \cup {"store"},
                          !.reply = IF r.reply.kind = "thrown" THEN "Error" ELSE r.reply.kind,
                          !.pc = "reply"]]
    /\ UNCHANGED <<tz, last>>

\* handleMessage: await bot.sendMessage(chatId, reply), or the error in its place
SendReply(i) ==
    /\ At(i, "reply")
    /\ chat' = [chat EXCEPT !.msgs[i] =
            [@ EXCEPT !.replies = Append(@, chat.msgs[i].reply), !.pc = "done"]]
    /\ UNCHANGED <<bookings, booking_cleaners, tz, last>>

BotNext ==
    \/ \E chatId \in ChatIds, kind \in MessageKinds : OnMessage(chatId, kind)
    \/ \E i \in 1..MaxMessages : Route(i)
    \/ \E i \in 1..MaxMessages, ok \in BOOLEAN : TranscribeVoice(i, ok)
    \/ \E i \in 1..MaxMessages : SendHeard(i)
    \/ \E i \in 1..MaxMessages : SendChatAction(i)
    \/ \E i \in 1..MaxMessages : GetCatalog(i)
    \/ \E i \in 1..MaxMessages, resp \in BotOracleResponses : CallOracle(i, resp)
    \/ \E i \in 1..MaxMessages : RunAction(i)
    \/ \E i \in 1..MaxMessages : SendReply(i)

BotSpec == BotInit /\ [][BotNext]_vars

---------------------------------------------------------------------------
(* Properties *)

\* the last request was a create_booking command
IsCreate == last.op = "message" /\ Has(last.intent, "action") /\ last.intent.action = "create_booking"

\* customer_name, address and booking_date of the action are given and not empty
RequiredGiven(intent) ==
    /\ Has(intent, "customer_name") /\ intent.customer_name # ""
    /\ Has(intent, "address") /\ intent.address # ""
    /\ Has(intent, "booking_date") /\ intent.booking_date # <<>>

\* the cleaner ids GET /bookings/:id answers for booking id in the current state
AssignedIds(id) == {c.id : c \in GetBookingById(bookings, booking_cleaners, id).cleaners}

\* C1: a valid create_booking action with no price (absent or 0) stores the price
\* its booking type's rate rule gives for the stored cleaner count and duration.
C1_DefaultPriceIsRated ==
    (IsCreate /\ RequiredGiven(last.intent) /\ NumOr(last.intent, "price", 0) = 0)
        => /\ last.status = 201
           /\ bookings[last.id].price =
                RatePrice(ResolveBookingType(last.intent, BookingTypes)[1],
                          NumOr(last.intent, "num_cleaners", 1),
                          NumOr(last.intent, "duration_hours", 2))

\* C2: a create_booking action with a non-zero price stores exactly that price in
\* the row it inserts, whatever its type, duration and cleaner count.
C2_SuppliedPriceStored ==
    (IsCreate /\ NumOr(last.intent, "price", 0) # 0 /\ last.id # 0)
        => /\ last.id \in 1..Len(bookings)
           /\ bookings[last.id].price = last.intent.price
           /\ last.body.price = last.intent.price

\* a row was inserted for a priced action whose type's rate rule gives another price
C2_Witness ==
    /\ IsCreate /\ last.status = 201
    /\ NumOr(last.intent, "price", 0) = 80
    /\ Has(last.intent, "booking_type") /\ last.intent.booking_type = "Oven Clean"
    /\ Has(last.intent, "duration_hours") /\ Has(last.intent, "num_cleaners")
    /\ bookings[last.id].price = 80

\* the last request sent a POST /bookings that was not answered 201
CreateFailed ==
    \/ last.op = "POST" /\ last.status # 201
    \/ last.op = "message" /\ last.calls = <<"POST /bookings">> /\ last.status # 201

\* C3: a POST /bookings that fails or is interrupted leaves neither a booking row
\* nor assignment rows behind.
C3_CreateIsAtomic ==
    [][CreateFailed' => (bookings' = bookings /\ booking_cleaners' = booking_cleaners)]_vars

\* the list ids names existing cleaners, each once
DistinctExisting(ids) ==
    /\ Range(ids) \subseteq CleanerIds
    /\ \A i, j \in 1..Len(ids) : i # j => ids[i] # ids[j]

\* C4: after POST /bookings with existing cleaner ids [a,b], GET /bookings/:id
\* answers the cleaner set {a,b}; after PUT /bookings/:id with [b,c] it answers
\* {b,c}, nothing of the old assignment left.
C4_AssignmentsRoundTrip ==
    /\ (last.op = "POST" /\ last.fate = "run" /\ BindOk(last.req, BookingCols)
            /\ DistinctExisting(ArrOr(last.req, "cleaner_ids")))
        => (last.status = 201 /\ AssignedIds(last.id) = Range(ArrOr(last.req, "cleaner_ids")))
    /\ (last.op = "POST" /\ last.status = 201 /\ Range(ArrOr(last.req, "cleaner_ids")) \subseteq CleanerIds)
        => AssignedIds(last.id) = Range(ArrOr(last.req, "cleaner_ids"))
    /\ (last.op = "PUT" /\ last.fate = "run" /\ BindOk(last.req, UpdateCols)
            /\ last.id \in 1..Len(bookings) /\ DistinctExisting(ArrOr(last.req, "cleaner_ids")))
        => (last.status = 200 /\ AssignedIds(last.id) = Range(ArrOr(last.req, "cleaner_ids")))
    /\ (last.op = "PUT" /\ last.status = 200 /\ last.id \in 1..Len(bookings)
            /\ Range(ArrOr(last.req, "cleaner_ids")) \subseteq CleanerIds)
        => AssignedIds(last.id) = Range(ArrOr(last.req, "cleaner_ids"))

\* a booking that GET answered {1,2} for was updated with [2,3] and now answers {2,3}
C4_Witness ==
    /\ last.op = "PUT" /\ last.status = 200
    /\ ArrOr(last.req, "cleaner_ids") = <<2, 3>>
    /\ {c.id : c \in last.before.cleaners} = {1, 2}
    /\ AssignedIds(last.id) = {2, 3}

\* the objects JSON.parse finds anywhere in the text, fences removed
ObjectsIn(resp) ==
    LET t == StripFences(resp.text)
    IN {o \in {JsonParse(SubSeq(t, i, j), resp.fields) : i, j \in 1..Len(t)} : o.ok}

\* the response holds no JSON object, or one tagged outside the action schema
Malformed(resp) ==
    \/ ObjectsIn(resp) = {}
    \/ \E o \in ObjectsIn(resp) :
          Has(o.value, "action") /\ o.value.action \notin KnownTags \cup {"unknown"}

\* C5: a malformed oracle response parses to the action unknown carrying the raw
\* text, and handling it neither throws nor calls the store.
C5_MalformedIsUnrecognized ==
    (last.op = "message" /\ Malformed(last.req))
        => /\ last.intent = Unrecognized(last.req.text)
           /\ last.calls = <<>>
           /\ last.reply.kind # "thrown"

\* C6: a create_booking action with customer_name, address or booking_date missing
\* or empty sends no POST /bookings and changes no table.
C6_MissingFieldsNotPosted ==
    [][(IsCreate' /\ ~RequiredGiven(last'.intent))
        => (last'.calls = <<>> /\ bookings' = bookings /\ booking_cleaners' = booking_cleaners)]_vars

\* the Sunday on or before the day date
SundayOf(date) == <<date[1] - (date[1] % 7)>>

\* C7: both week routes answer week_start = the Sunday on or before the anchor and
\* week_end = week_start + 6 days.
C7_WeekIsSundayToSaturday ==
    (last.op \in {"GET schedule", "GET income"})
        => /\ last.res.week_start = SundayOf(last.date)
           /\ last.res.week_end = <<SundayOf(last.date)[1] + 6>>

\* C8: with no booking dated inside the anchor's week, GET /income/weekly answers
\* total_bookings = 0, total_hours = 0 and total_income = 0, none of them null.
C8_EmptyWeekIncomeIsZero ==
    (last.op = "GET income"
        /\ Between(bookings, SundayOf(last.date), <<SundayOf(last.date)[1] + 6>>) = {}
        /\ Between(bookings, last.res.week_start, last.res.week_end) = {})
        => /\ last.res.total_bookings = <<0>>
           /\ last.res.total_hours = <<0>>
           /\ last.res.total_income = <<0>>

\* C9: every stored booking has duration_hours > 0, num_cleaners >= 1, price >= 0.
C9_BookingFieldsInRange ==
    \A i \in 1..Len(bookings) :
        /\ bookings[i].duration_hours > 0
        /\ bookings[i].num_cleaners >= 1
        /\ bookings[i].price >= 0

\* the ids of the catalog cleaners named, in any letter case, by the list names
NamedCleanerIds(names) ==
    {Cleaners[i].id : i \in {j \in 1..Len(Cleaners) :
        \E k \in 1..Len(names) : ToLowerCase(Cleaners[j].name) = ToLowerCase(names[k])}}

\* C10: a create_booking action with its required fields creates the booking,
\* assigned exactly the catalog cleaners its cleaner_names name in any letter
\* case; an unmatched name does not prevent it.
C10_CleanersLinkedByName ==
    (IsCreate /\ RequiredGiven(last.intent))
        => /\ last.status = 201
           /\ AssignedIds(last.id) = NamedCleanerIds(ArrOr(last.intent, "cleaner_names"))

\* the id of the type a create_booking action names in any letter case, else of
\* the default type General Cleaning
NamedTypeId(intent) ==
    LET f == IF Has(intent, "booking_type")
             THEN Find(BookingTypes, ToLowerCase(intent.booking_type)) ELSE <<>>
    IN IF f # <<>> THEN f[1].id ELSE Find(BookingTypes, "general cleaning")[1].id

\* C11: the booking a create_booking action creates records the catalog type its
\* booking_type names in any letter case, and the default type General Cleaning
\* when booking_type is absent or names no type.
C11_BookingTypeRecorded ==
    (IsCreate /\ last.status = 201)
        => /\ Has(bookings[last.id], "booking_type_id")
           /\ bookings[last.id].booking_type_id = NamedTypeId(last.intent)

\* the first top-level brace-delimited group of the text: from the first "{" to
\* the "}" that closes it, or <<>> when there is none
FirstGroup(cleaned) ==
    LET opens == {i \in 1..Len(cleaned) : cleaned[i] = "{"}
        a == CHOOSE i \in opens : \A j \in opens : i <= j
        depth(j) == Cardinality({i \in a..j : cleaned[i] = "{"})
                      - Cardinality({i \in a..j : cleaned[i] = "}"})
        closes == {j \in a..Len(cleaned) : depth(j) = 0}
    IN IF opens = {} \/ closes = {} THEN <<>>
       ELSE SubSeq(cleaned, a, CHOOSE j \in closes : \A k \in closes : j <= k)

\* the action object that is the first top-level group of the response, as
\* <<object>>, or <<>> when that group is no well-formed action object
FirstActionObject(resp) ==
    LET p == JsonParse(FirstGroup(StripFences(resp.text)), resp.fields)
    IN IF p.ok /\ Has(p.value, "action") THEN <<p.value>> ELSE <<>>

\* C12: when the first top-level brace-delimited group of the oracle's text,
\* fences stripped, is a well-formed action object, parseIntent returns that
\* object, whatever commentary stands before or after it.
C12_FirstObjectIsParsed ==
    (last.op = "message" /\ FirstActionObject(last.req) # <<>>)
        => last.intent = FirstActionObject(last.req)[1]

\* the last request was a PUT /bookings/:id that was not answered 200
UpdateFailed == last.op = "PUT" /\ last.status # 200

\* C13: a PUT /bookings/:id that fails or is interrupted leaves the booking's
\* fields and its assignment rows exactly as they were before the request.
C13_UpdateIsAtomic ==
    [][UpdateFailed' => (bookings' = bookings /\ booking_cleaners' = booking_cleaners)]_vars

\* message i is an utterance: a text or a voice note of an authorized chat
Utterance(i) ==
    /\ chat.msgs[i].kind \in {"text", "voice"}
    /\ IsAuthorized(AdminChatIds(chat.env), chat.msgs[i].chat)

\* C14: of two utterances of one chat, the later one runs no operation and gets
\* no reply before the handler of the earlier one has finished.
C14_OneUtteranceAtATime ==
    \A i, j \in 1..Len(chat.msgs) :
        (i < j /\ chat.msgs[i].chat = chat.msgs[j].chat /\ Utterance(i) /\ Utterance(j)
            /\ (chat.msgs[j].ops # {} \/ chat.msgs[j].replies # <<>>))
        => chat.msgs[i].pc = "done"

\* message i comes from a chat outside a set, non-empty allow-list
Outsider(i) ==
    /\ chat.env # <<>>
    /\ chat.msgs[i].chat \notin Range(AdminChatIds(chat.env)[1])

\* C15: with the allow-list set, a message of a chat outside it runs no
\* transcription, catalog read, oracle call or store operation and is sent the
\* refusal and nothing else; the text /myid is answered with the chat id for
\* every chat and runs none of those operations either.
C15_OutsidersAreRefused ==
    \A i \in 1..Len(chat.msgs) :
        LET m == chat.msgs[i]
        IN /\ (Outsider(i) /\ m.kind # "/myid")
                => /\ m.ops = {}
                   /\ m.intent = EmptyObj
                   /\ m.pc \in {"route", "done"}
                   /\ m.replies = IF m.pc = "done" THEN <<"Sorry, this bot is private">> ELSE <<>>
           /\ m.kind = "/myid"
                => /\ m.ops = {}
                   /\ m.pc \in {"route", "done"}
                   /\ m.replies = IF m.pc = "done" THEN <<"Your Telegram chat ID is">> ELSE <<>>

\* an outsider's voice note was refused and an outsider's /myid was answered,
\* under an allow-list that admits another chat
C15_Witness ==
    /\ chat.env # <<>>
    /\ IsAuthorized(AdminChatIds(chat.env), 1)
    /\ \E i, j \in 1..Len(chat.msgs) :
          /\ Outsider(i) /\ chat.msgs[i].kind = "voice" /\ chat.msgs[i].pc = "done"
          /\ chat.msgs[i].replies = <<"Sorry, this bot is private">>
          /\ Outsider(j) /\ chat.msgs[j].kind = "/myid" /\ chat.msgs[j].pc = "done"
          /\ chat.msgs[j].replies = <<"Your Telegram chat ID is">>

\* the names, in lower case, of the catalog cleaners with an id in ids
CleanerNamesOf(ids) ==
    {ToLowerCase(Cleaners[i].name) : i \in {j \in 1..Len(Cleaners) : Cleaners[j].id \in Range(ids)}}

\* C16: the Booking Created confirmation of a successful create_booking names
\* exactly the cleaners whose ids were sent as cleaner_ids, and says Unassigned
\* exactly when no id was sent.
C16_ConfirmationNamesAssigned ==
    (IsCreate /\ last.status = 201)
        => /\ (last.reply.assigned = <<"Unassigned">>) <=> (last.body.cleaner_ids = <<>>)
           /\ last.reply.assigned # <<"Unassigned">>
                => {ToLowerCase(n) : n \in Range(last.reply.assigned)}
                     = CleanerNamesOf(last.body.cleaner_ids)

====
